---- MODULE Spec2Model ----
(***************************************************************************)
(* Model of the command registry of uniquesaykas_bot.py: the per-chat      *)
(* folders of JSON command files, and the coroutines add_command,          *)
(* my_commands, delete_command and handle_message that read and write      *)
(* them.  A text is a sequence of one-character strings.  A handler is a   *)
(* coroutine: it runs without interruption from one await to the next, and *)
(* other handlers may run while it is suspended at an await.               *)
(***************************************************************************)
EXTENDS Integers, Sequences, FiniteSets, Bags, TLC

\* ------------------------------------------------------------------ bounds

\* Number of handler coroutines that may be in flight at once.
NumHandlers == 2
\* Chat identifiers are 1..MaxChatId for private chats, -MaxChatId..-1 for groups.
MaxChatId == 1
\* Longest raw text the normalisation properties are quantified over.
MaxTextLen == 3

\* ------------------------------------------------------------------ texts

Q == "\""

\* Characters str.strip() removes and the regular expression's \s matches.
Whitespace == {" ", "\t", "\n"}

\* str.lower() on one character.
LowerChar(c) ==
    CASE c = "A" -> "a"
      [] c = "B" -> "b"
      [] c = "X" -> "x"
      [] OTHER -> c

\* str.lower()
Lower(s) == [i \in 1..Len(s) |-> LowerChar(s[i])]

\* str.strip(): drop the leading and the trailing whitespace.
Strip(s) ==
    LET keep == {i \in 1..Len(s) : s[i] \notin Whitespace}
    IN  IF keep = {} THEN <<>>
        ELSE LET lo == CHOOSE i \in keep : \A j \in keep : i <= j
                 hi == CHOOSE i \in keep : \A j \in keep : j <= i
             IN  SubSeq(s, lo, hi)

\* text[n:], the text without its first n characters.
Slice(s, n) == SubSeq(s, n + 1, Len(s))

\* str.split() with no argument: the maximal runs of non-whitespace characters.
RECURSIVE Split(_)
Split(s) ==
    LET t == Strip(s)
    IN  IF t = <<>> THEN <<>>
        ELSE LET ws  == {i \in 1..Len(t) : t[i] \in Whitespace}
                 end == IF ws = {} THEN Len(t)
                        ELSE (CHOOSE i \in ws : \A j \in ws : i <= j) - 1
             IN  <<SubSeq(t, 1, end)>> \o Split(Slice(t, end))

\* " ".join(words)
RECURSIVE Join(_)
Join(words) ==
    IF words = <<>> THEN <<>>
    ELSE IF Len(words) = 1 THEN words[1]
    ELSE words[1] \o <<" ">> \o Join(Tail(words))

\* re.match(r'\"(.+?)\"\s*(.*)', s): the pattern with the answer optional
ReMatchAnswerOptional(s) ==
    LET closing == {k \in 3..Len(s) : s[k] = Q}
    IN  IF Len(s) = 0 \/ s[1] # Q \/ closing = {} THEN <<>>
        ELSE LET k == CHOOSE x \in closing : \A y \in closing : x <= y
             IN  <<SubSeq(s, 2, k - 1), Strip(SubSeq(s, k + 1, Len(s)))>>

\* re.match(r'\"(.+?)\"\s+(.+)', s): the groups <<command, answer>> of the
\* match at the start of s, or <<>> when there is none.  The lazy (.+?) takes
\* the first closing quote after which the rest can match; \s+ is greedy and
\* gives characters back until (.+) has one to take; "." matches no newline.
ReMatch(s) ==
    LET n == Len(s)
        \* largest m >= 1 with s[k+1..k+m] whitespace and s[k+m+1] a non-newline
        Runs(k) == {m \in 1..(n - k - 1) :
                       /\ \A i \in (k + 1)..(k + m) : s[i] \in Whitespace
                       /\ s[k + m + 1] # "\n"}
        Closing == {k \in 3..n :
                       /\ s[k] = Q
                       /\ \A i \in 2..(k - 1) : s[i] # "\n"
                       /\ Runs(k) # {}}
    IN  IF n = 0 \/ s[1] # Q \/ Closing = {} THEN <<>>
        ELSE LET k     == CHOOSE x \in Closing : \A y \in Closing : x <= y
                 m     == CHOOSE x \in Runs(k) : \A y \in Runs(k) : y <= x
                 from  == k + m + 1
                 nls   == {i \in from..n : s[i] = "\n"}
                 to    == IF nls = {} THEN n
                          ELSE (CHOOSE i \in nls : \A j \in nls : i <= j) - 1
             IN  <<SubSeq(s, 2, k - 1), SubSeq(s, from, to)>>

\* ------------------------------------------------------------------ scopes

\* update.effective_chat.type of the chats that reach the handlers.
ChatTypes == {"private", "group", "supergroup"}

\* The chats updates come from: private chats have positive identifiers,
\* groups and supergroups negative ones.
Chats ==
    {[type |-> "private", id |-> n] : n \in 1..MaxChatId}
    \cup {[type |-> t, id |-> 0 - n] : t \in {"group", "supergroup"}, n \in 1..MaxChatId}

\* 'group' if update.effective_chat.type in ['group', 'supergroup'] else 'user'
IdType(chatType) == IF chatType \in {"group", "supergroup"} THEN "group" ELSE "user"

IdTypeText(idType) ==
    IF idType = "group" THEN <<"g", "r", "o", "u", "p">> ELSE <<"u", "s", "e", "r">>

Digit(d) ==
    CASE d = 0 -> "0" [] d = 1 -> "1" [] d = 2 -> "2" [] d = 3 -> "3" [] d = 4 -> "4"
      [] d = 5 -> "5" [] d = 6 -> "6" [] d = 7 -> "7" [] d = 8 -> "8" [] d = 9 -> "9"

\* str(n) of an integer, as the f-string formats id_value.
RECURSIVE Decimal(_)
Decimal(n) ==
    IF n < 0 THEN <<"-">> \o Decimal(0 - n)
    ELSE IF n < 10 THEN <<Digit(n)>>
    ELSE Decimal(n \div 10) \o <<Digit(n % 10)>>

\* f"_{id_value}", the folder name without the kind of chat
FolderNameNoType(idType, idValue) == <<"_">> \o Decimal(idValue)

\* f"{id_type}_{id_value}", the folder of a scope under BASE_COMMANDS_FOLDER.
FolderName(idType, idValue) == IdTypeText(idType) \o <<"_">> \o Decimal(idValue)

\* ------------------------------------------------------------------ inputs

AddCmd == <<"/", "a", "d", "d", "c", "o", "m", "m", "a", "n", "d">>
DelCmd == <<"/", "d", "e", "l", "e", "t", "e", "c", "o", "m", "m", "a", "n", "d">>

\* The quoted segments the /addcommand messages carry.
RawTriggers == {<<" ", "A">>, <<" ">>, <<"a", " ", " ", "b">>}

\* What follows "/addcommand " in the messages: well-formed ones, one with no
\* quoted segment, one whose quoted segment is followed by nothing.
AddArgs ==
    {<<Q>> \o t \o <<Q, " ", "x">> : t \in RawTriggers}
    \cup {<<Q, " ", "A", Q, " ", "y">>, <<"a", " ", "x">>, <<Q, " ", "A", Q>>}

AddTexts == {AddCmd \o <<" ">> \o a : a \in AddArgs}

\* /deletecommand followed by each raw trigger.
DeleteTexts == {DelCmd \o <<" ">> \o t : t \in RawTriggers}

\* Plain messages: each raw trigger, and other spellings of them.
MessageTexts == RawTriggers \cup {<<"a">>}

\* chat_member.status values the platform reports.
Statuses == {"creator", "administrator", "member"}

\* ------------------------------------------------------------------ state

VARIABLES
    dirs,     \* the folders that exist under bot_commands
    files,    \* folder -> the mapping its commands.json holds
    torn,     \* the folders whose commands.json holds no complete JSON
              \* document: it is empty or cut short
    handler,  \* the bag of the coroutines in flight
    added     \* history: the Adds that were answered "saved", less those a
              \* Delete answered "deleted" since

vars == <<dirs, files, torn, handler, added>>

EmptyDict == [k \in {} |-> <<>>]

\* os.makedirs(BASE_COMMANDS_FOLDER) has run; the folder is empty.
Init ==
    /\ dirs = {}
    /\ files = EmptyDict
    /\ torn = {}
    /\ handler = EmptyBag
    /\ added = {}

\* ------------------------------------------------------------------ store

\* load_commands that finds no file to read
load_commands_nothing(idType, idValue) ==
    [commands |-> EmptyDict, dirs |-> dirs \cup {FolderName(idType, idValue)},
     raises |-> FALSE]

\* load_commands: the folder is created, and the mappings of its .json files
\* are merged; commands.json is the only file the program ever writes there.
\* What json.dump wrote is what json.load returns: a mapping of texts to texts.
\* On a file that holds no complete document json.load raises JSONDecodeError,
\* which nothing in load_commands catches: the folder exists by then.
load_commands(idType, idValue) ==
    LET folder == FolderName(idType, idValue)
    IN  [commands |-> IF folder \in DOMAIN files THEN files[folder] ELSE EmptyDict,
         dirs     |-> dirs \cup {folder},
         raises   |-> folder \in torn]

\* How far save_commands gets: to its end ("none"), or to the point where a
\* call raises OSError or the process stops: before open(..., 'w') has
\* truncated the file ("open"), or after it and before json.dump and the close
\* have put the whole text there ("write").
NoFault == {"none"}
SaveFaults == {"none", "open", "write"}

\* save_commands: the folder is created and commands.json is replaced.  The
\* file is written in place: a save that gets no further than "write" leaves
\* it empty or cut short, with nothing of the mapping it held.
save_commands(idType, idValue, commands, fault) ==
    LET folder == FolderName(idType, idValue)
    IN  [dirs  |-> dirs \cup {folder},
         files |-> CASE fault = "none" ->
                          [f \in DOMAIN files \cup {folder} |->
                              IF f = folder THEN commands ELSE files[f]]
                     [] fault = "open" -> files
                     [] fault = "write" ->
                          [f \in DOMAIN files \cup {folder} |->
                              IF f = folder THEN EmptyDict ELSE files[f]],
         torn  |-> CASE fault = "none" -> torn \ {folder}
                     [] fault = "open" -> torn
                     [] fault = "write" -> torn \cup {folder}]

\* commands = {command: answer}
DictSetFresh(d, k, v) == [x \in {k} |-> v]

\* commands[command] = answer
DictSet(d, k, v) == [x \in DOMAIN d \cup {k} |-> IF x = k THEN v ELSE d[x]]

\* del commands[command]
DictDel(d, k) == [x \in DOMAIN d \ {k} |-> d[x]]

\* ------------------------------------------------------------------ handlers

\* the role test that lets every role through
IsAnyone(status) == TRUE

\* the role test without 'creator'
IsAdminNotCreator(status) == status = "administrator"

\* the role test with 'member' let through
IsAdminOrMember(status) == status \in {"administrator", "creator", "member"}

\* chat_member.status not in ['administrator', 'creator'] is the rejection.
IsAdmin(status) == status \in {"administrator", "creator"}

\* The groups of the /addcommand text: update.message.text[12:].strip() matched.
AddParse(text) == ReMatch(Strip(Slice(text, 12)))

\* command.strip().lower()
AddKey(rawCommand) == Lower(Strip(rawCommand))

\* " ".join(context.args).strip().lower(); context.args is text.split()[1:].
DeleteKey(text) == Lower(Strip(Join(Tail(Split(text)))))

\* handle_message without the .strip()
MessageKeyNoStrip(text) == Lower(text)

\* handle_message without the .lower()
MessageKeyNoLower(text) == Strip(text)

\* update.message.text.strip().lower()
MessageKey(text) == Lower(Strip(text))

\* The parse of each /addcommand text and the key of each /deletecommand
\* text, computed once.
AddParsed == [t \in AddTexts |-> AddParse(t)]
DeleteKeys == [t \in DeleteTexts |-> DeleteKey(t)]

\* The outcome of a handler: its kind, and the text of an auto-reply.  The
\* wording of the other replies is not modelled.
Result(tag, answer) == [tag |-> tag, answer |-> answer]

\* A coroutine suspended at await get_chat_member: it holds its update.
Awaiting(op, chat, text) ==
    [pc |-> "auth", op |-> op, chat |-> chat, text |-> text,
     status |-> "none", result |-> Result("none", <<>>)]

\* A coroutine that has its outcome: suspended at await reply_text (pc
\* "reply"), or past its last statement or ended by an exception, with
\* nothing sent (pc "done").  It reads the text of its update no more; the
\* chat is kept, with the role the lookup reported and the outcome.
Outcome(pc, op, chat, status, result) ==
    [pc |-> pc, op |-> op, chat |-> chat,
     text |-> <<>>, status |-> status, result |-> result]

Running == BagToSet(handler)

\* The bag with coroutine h advanced to h2.
Advance(h, h2) == (handler (-) SetToBag({h})) (+) SetToBag({h2})

\* the handler runs load_commands before the role lookup
ReceiveLoadsFirst(op, chat, text) ==
    /\ BagCardinality(handler) < NumHandlers
    /\ handler' = handler (+) SetToBag({Awaiting(op, chat, text)})
    /\ dirs' = load_commands(IdType(chat.type), chat.id).dirs
    /\ UNCHANGED <<files, torn, added>>

\* A handler starts at an update and runs to its first await: the role lookup
\* in add_command, my_commands and delete_command.
Receive(op, chat, text) ==
    /\ BagCardinality(handler) < NumHandlers
    /\ handler' = handler (+) SetToBag({Awaiting(op, chat, text)})
    /\ UNCHANGED <<dirs, files, torn, added>>

ReceiveAdd ==
    \E chat \in Chats, text \in AddTexts : Receive("add", chat, text)

ReceiveList ==
    \E chat \in Chats : Receive("list", chat, <<>>)

ReceiveDelete ==
    \E chat \in Chats, text \in DeleteTexts : Receive("delete", chat, text)

\* the failed lookup answered as a refusal
OnLookupErrorRefuse(h) ==
    Outcome("reply", h.op, h.chat, "none", Result("Unauthorized", <<>>))

\* await get_chat_member raises (the platform is unreachable): no handler
\* catches it, so the coroutine ends there, with no role and nothing sent.
OnLookupError(h) ==
    Outcome("done", h.op, h.chat, "none", Result("LookupError", <<>>))

\* The role lookup of add_command, my_commands or delete_command fails.
LookupFails ==
    \E h \in Running :
        /\ h.pc = "auth"
        /\ handler' = Advance(h, OnLookupError(h))
        /\ UNCHANGED <<dirs, files, torn, added>>

\* json.load raised in load_commands: the exception ends the coroutine.
OnLoadError(h, status) ==
    Outcome("done", h.op, h.chat, status, Result("LoadError", <<>>))

\* the reply sent whether save_commands returned or raised
AfterSaveAnyway(tag, fault) == [pc |-> "reply", tag |-> tag]

\* What follows the call of save_commands: the await of the reply when it
\* returned; when it raised, the exception ends the coroutine before the reply.
AfterSave(tag, fault) ==
    IF fault = "none" THEN [pc |-> "reply", tag |-> tag]
    ELSE [pc |-> "done", tag |-> "SaveError"]

\* add_command without the "command not in commands" test
AddOutcomeOverwrite(commands, command, answer) ==
    [tag |-> "Stored", save |-> TRUE, commands |-> DictSet(commands, command, answer)]

\* What add_command does with the loaded commands: the mapping it saves, or
\* no save when the command is already a key.
AddOutcome(commands, command, answer) ==
    IF command \notin DOMAIN commands
    THEN [tag |-> "Stored", save |-> TRUE, commands |-> DictSet(commands, command, answer)]
    ELSE [tag |-> "DuplicateCommand", save |-> FALSE, commands |-> commands]

\* delete_command without the "command in commands" test
DeleteOutcomeAlways(commands, command) ==
    [tag |-> "Deleted", save |-> TRUE, commands |-> DictDel(commands, command)]

\* What delete_command does with the loaded commands.
DeleteOutcome(commands, command) ==
    IF command \in DOMAIN commands
    THEN [tag |-> "Deleted", save |-> TRUE, commands |-> DictDel(commands, command)]
    ELSE [tag |-> "NotFound", save |-> FALSE, commands |-> commands]

\* What handle_message does with the loaded commands.
MatchOutcome(commands, text) ==
    LET message_text == MessageKey(text)
    IN  IF message_text \in DOMAIN commands
        THEN Result("Matched", commands[message_text])
        ELSE Result("NoMatch", <<>>)

\* The history after a save_commands of a scope that went as far as fault:
\* live are the Adds the file still holds.
AddedAfter(scope, fault, live) ==
    CASE fault = "none" -> live
      [] fault = "open" -> added
      [] fault = "write" -> {r \in added : r.scope # scope}

\* The coroutines after a save_commands that went as far as fault: none when
\* the process stopped there, else h advanced past the save.
HandlerAfter(h, status, tag, fault, stops) ==
    IF stops THEN EmptyBag
    ELSE LET after == AfterSave(tag, fault)
         IN  Advance(h, Outcome(after.pc, h.op, h.chat, status,
                                Result(after.tag, <<>>)))

\* add_command from the return of get_chat_member to the await of reply_text,
\* or to the exception or the stop of the process that ends it; faults are
\* the ways its save_commands may go.
AddCommandOf(faults) ==
    \E h \in Running, status \in Statuses, fault \in faults, stops \in BOOLEAN :
        /\ h.pc = "auth" /\ h.op = "add"
        /\ stops => fault # "none"
        /\ LET idType == IdType(h.chat.type)
               match  == AddParsed[h.text]
           IN  IF ~IsAdmin(status) THEN
                   /\ handler' = Advance(h, Outcome("reply", h.op, h.chat, status,
                                                    Result("Unauthorized", <<>>)))
                   /\ UNCHANGED <<dirs, files, torn, added>>
               ELSE IF match = <<>> THEN
                   /\ handler' = Advance(h, Outcome("reply", h.op, h.chat, status,
                                                    Result("InvalidFormat", <<>>)))
                   /\ UNCHANGED <<dirs, files, torn, added>>
               ELSE
                   LET command == AddKey(match[1])
                       answer  == match[2]
                       loaded  == load_commands(idType, h.chat.id)
                       out     == AddOutcome(loaded.commands, command, answer)
                       saved   == save_commands(idType, h.chat.id, out.commands, fault)
                       record  == [scope |-> <<idType, h.chat.id>>, raw |-> match[1],
                                   command |-> command, answer |-> answer,
                                   nth |-> Cardinality({r \in added :
                                             /\ r.scope = <<idType, h.chat.id>>
                                             /\ r.command = command})]
                   IN  IF loaded.raises THEN
                           /\ dirs' = loaded.dirs
                           /\ handler' = Advance(h, OnLoadError(h, status))
                           /\ UNCHANGED <<files, torn, added>>
                       ELSE IF ~out.save THEN
                           /\ dirs' = loaded.dirs
                           /\ handler' = Advance(h, Outcome("reply", h.op, h.chat, status,
                                                            Result(out.tag, <<>>)))
                           /\ UNCHANGED <<files, torn, added>>
                       ELSE
                           /\ dirs' = loaded.dirs \cup saved.dirs
                           /\ files' = saved.files
                           /\ torn' = saved.torn
                           /\ added' = AddedAfter(<<idType, h.chat.id>>, fault,
                                                  added \cup {record})
                           /\ handler' = HandlerAfter(h, status, out.tag, fault, stops)

AddCommand == AddCommandOf(NoFault)

\* my_commands from the return of get_chat_member to the await of reply_text.
MyCommands ==
    \E h \in Running, status \in Statuses :
        /\ h.pc = "auth" /\ h.op = "list"
        /\ IF ~IsAdmin(status) THEN
               /\ handler' = Advance(h, Outcome("reply", h.op, h.chat, status,
                                                Result("Unauthorized", <<>>)))
               /\ UNCHANGED <<dirs, files, torn, added>>
           ELSE
               LET loaded == load_commands(IdType(h.chat.type), h.chat.id)
               IN  /\ dirs' = loaded.dirs
                   /\ handler' = Advance(h,
                          IF loaded.raises THEN OnLoadError(h, status)
                          ELSE Outcome("reply", h.op, h.chat, status,
                                  Result(IF loaded.commands # EmptyDict
                                         THEN "Listed" ELSE "Empty", <<>>)))
                   /\ UNCHANGED <<files, torn, added>>

\* delete_command from the return of get_chat_member to the await of
\* reply_text, or to the exception or the stop of the process that ends it.
DeleteCommandOf(faults) ==
    \E h \in Running, status \in Statuses, fault \in faults, stops \in BOOLEAN :
        /\ h.pc = "auth" /\ h.op = "delete"
        /\ stops => fault # "none"
        /\ LET idType == IdType(h.chat.type)
           IN  IF ~IsAdmin(status) THEN
                   /\ handler' = Advance(h, Outcome("reply", h.op, h.chat, status,
                                                    Result("Unauthorized", <<>>)))
                   /\ UNCHANGED <<dirs, files, torn, added>>
               ELSE
                   LET command == DeleteKeys[h.text]
                       loaded  == load_commands(idType, h.chat.id)
                       out     == DeleteOutcome(loaded.commands, command)
                       saved   == save_commands(idType, h.chat.id, out.commands, fault)
                   IN  IF loaded.raises THEN
                           /\ dirs' = loaded.dirs
                           /\ handler' = Advance(h, OnLoadError(h, status))
                           /\ UNCHANGED <<files, torn, added>>
                       ELSE IF ~out.save THEN
                           /\ dirs' = loaded.dirs
                           /\ handler' = Advance(h, Outcome("reply", h.op, h.chat, status,
                                                            Result(out.tag, <<>>)))
                           /\ UNCHANGED <<files, torn, added>>
                       ELSE
                           /\ dirs' = loaded.dirs \cup saved.dirs
                           /\ files' = saved.files
                           /\ torn' = saved.torn
                           /\ added' = AddedAfter(<<idType, h.chat.id>>, fault,
                                           {r \in added :
                                               ~(/\ r.scope = <<idType, h.chat.id>>
                                                 /\ r.command = command)})
                           /\ handler' = HandlerAfter(h, status, out.tag, fault, stops)

DeleteCommand == DeleteCommandOf(NoFault)

\* handle_message from the update to the await of reply_text, or to its end
\* when no command matches: there is no role lookup and no earlier await.
HandleMessageOf(texts) ==
    \E chat \in Chats, text \in texts :
        /\ BagCardinality(handler) < NumHandlers
        /\ LET loaded == load_commands(IdType(chat.type), chat.id)
               result == MatchOutcome(loaded.commands, text)
               h      == Awaiting("message", chat, text)
           IN  /\ dirs' = loaded.dirs
               /\ handler' = handler (+) SetToBag({
                      IF loaded.raises THEN OnLoadError(h, "none")
                      ELSE Outcome(IF result.tag = "Matched" THEN "reply" ELSE "done",
                                   "message", chat, "none", result)})
               /\ UNCHANGED <<files, torn, added>>

HandleMessage == HandleMessageOf(MessageTexts)

\* The handler returns: await reply_text is over, or nothing was to be sent.
Return ==
    \E h \in Running :
        /\ h.pc \in {"reply", "done"}
        /\ handler' = handler (-) SetToBag({h})
        /\ UNCHANGED <<dirs, files, torn, added>>

Next ==
    \/ ReceiveAdd
    \/ ReceiveList
    \/ ReceiveDelete
    \/ AddCommand
    \/ MyCommands
    \/ DeleteCommand
    \/ HandleMessage
    \/ Return

Spec == Init /\ [][Next]_vars

\* ------------------------------------------------------------------ faults

\* No update is being handled: the dispatcher main() builds takes the updates
\* one at a time.
Idle == handler = EmptyBag

TakeAdd == Idle /\ ReceiveAdd

TakeList == Idle /\ ReceiveList

TakeDelete == Idle /\ ReceiveDelete

TakeMessage == Idle /\ HandleMessage

\* add_command and delete_command with a save_commands that may fail.
AddCommandFaulty == AddCommandOf(SaveFaults)

DeleteCommandFaulty == DeleteCommandOf(SaveFaults)

NextFault ==
    \/ TakeAdd
    \/ TakeList
    \/ TakeDelete
    \/ LookupFails
    \/ AddCommandFaulty
    \/ MyCommands
    \/ DeleteCommandFaulty
    \/ TakeMessage
    \/ Return

\* The updates handled one at a time, where the role lookup may fail,
\* save_commands may raise and the process may stop in it and start again.
SpecFault == Init /\ [][NextFault]_vars

\* ------------------------------------------------------------------ matching alone

\* The characters of the texts the matching is examined on.
Alphabet == {"a", "A", "b", " "}

\* Every text of at most MaxTextLen characters.
Texts == UNION {[1..n -> Alphabet] : n \in 0..MaxTextLen}

\* What a well-formed /addcommand text stores.
Storable ==
    {[raw |-> AddParsed[t][1], command |-> AddKey(AddParsed[t][1]),
      answer |-> AddParsed[t][2]] : t \in {x \in AddTexts : AddParsed[x] # <<>>}}

\* The bot at rest with the commands some Adds left in one chat's folder:
\* no two of them with the same key.
InitMatch ==
    \E chat \in Chats, adds \in SUBSET Storable :
        /\ \A r1, r2 \in adds : r1.command = r2.command => r1 = r2
        /\ adds # {}
        /\ LET idType == IdType(chat.type)
               folder == FolderName(idType, chat.id)
           IN  /\ dirs = {folder}
               /\ files = [f \in {folder} |->
                             [k \in {r.command : r \in adds} |->
                                 (CHOOSE r \in adds : r.command = k).answer]]
               /\ added = {[scope |-> <<idType, chat.id>>, raw |-> r.raw,
                            command |-> r.command, answer |-> r.answer,
                            nth |-> 0] : r \in adds}
        /\ torn = {}
        /\ handler = EmptyBag

\* A plain message with any text, handled with no other update in flight:
\* the dispatcher main() builds takes the updates one at a time.
HandleAnyMessage == handler = EmptyBag /\ HandleMessageOf(Texts)

NextMatch ==
    \/ HandleAnyMessage
    \/ Return

\* Plain messages of every text against the stored commands.
SpecMatch == InitMatch /\ [][NextMatch]_vars

\* ------------------------------------------------------------------ properties

\* The scope of a chat, and the scopes of the chats.
ScopeOf(chat) == <<IdType(chat.type), chat.id>>
Scopes == {ScopeOf(chat) : chat \in Chats}

\* The command set a scope has in the file store fs.
StoredIn(fs, scope) ==
    LET folder == FolderName(scope[1], scope[2])
    IN  IF folder \in DOMAIN fs THEN fs[folder] ELSE EmptyDict

\* What handle_message answers to a text in a scope, in the current state.
Match(scope, text) == MatchOutcome(load_commands(scope[1], scope[2]).commands, text)

\* In this step coroutine h resumed from the role lookup and became h2.
Resumed(h, h2) ==
    /\ h.pc = "auth" /\ h2.pc = "reply" /\ h2.op = h.op
    /\ handler' = Advance(h, h2)

\* The role is one the handlers accept.
Elevated(status) == status = "administrator" \/ status = "creator"

\* C1: once an Add of trigger T with response R in scope S was answered
\* Stored, and no Delete removed it since, a message with the text T in S is
\* answered with exactly R.
C1_MatchAfterAdd ==
    \A r \in added : Match(r.scope, r.raw) = Result("Matched", r.answer)

\* A message was answered with the response of an Add whose quoted trigger
\* is not in normal form.
C1_Witness ==
    \E r \in added, h \in Running :
        /\ h.op = "message" /\ ScopeOf(h.chat) = r.scope
        /\ h.result = Result("Matched", r.answer)
        /\ r.raw # r.command /\ r.command # <<>>

\* C2: an Add by an authorized actor whose normalized trigger is already a
\* key of the scope's command set is answered DuplicateCommand and leaves
\* every file as it was, whatever its response.
C2_AddNeverOverwrites ==
    [][\A h \in BagToSet(handler), h2 \in BagToSet(handler') :
          (/\ Resumed(h, h2) /\ h.op = "add" /\ Elevated(h2.status)
           /\ AddParse(h.text) # <<>>
           /\ Lower(Strip(AddParse(h.text)[1])) \in DOMAIN StoredIn(files, ScopeOf(h.chat)))
          => (h2.result.tag = "DuplicateCommand" /\ files' = files)]_vars

\* An Add was answered DuplicateCommand while the scope holds the trigger
\* with the response of the earlier Add.
C2_Witness ==
    \E h \in Running, r \in added :
        /\ h.op = "add" /\ h.result.tag = "DuplicateCommand"
        /\ StoredIn(files, r.scope)[r.command] = r.answer

\* The live Adds of a trigger key in a scope.
Live(scope, command) == {r \in added : r.scope = scope /\ r.command = command}

\* C3: of two Adds of one trigger in one scope that overlap in time, with
\* responses r1 and r2, one is answered Stored and the other
\* DuplicateCommand: no trigger ever has two Adds answered Stored without a
\* Delete between them, and the Add that finds the trigger stored leaves the
\* first response in place.
C3_ConcurrentAdds ==
    /\ [](\A r1, r2 \in added :
            (r1.scope = r2.scope /\ r1.command = r2.command) => r1 = r2)
    /\ [][\A h \in BagToSet(handler), h2 \in BagToSet(handler') :
            (/\ Resumed(h, h2) /\ h.op = "add" /\ Elevated(h2.status)
             /\ AddParse(h.text) # <<>>)
            => LET scope   == ScopeOf(h.chat)
                   command == Lower(Strip(AddParse(h.text)[1]))
               IN  IF Live(scope, command) = {}
                   THEN h2.result.tag = "Stored"
                   ELSE /\ h2.result.tag = "DuplicateCommand"
                        /\ command \in DOMAIN StoredIn(files', scope)
                        /\ \A r \in Live(scope, command) :
                              StoredIn(files', scope)[command] = r.answer]_vars

\* Two Adds are awaiting their replies at once, one Stored and one
\* DuplicateCommand, and the store holds the one entry they competed for.
C3_Witness ==
    /\ \E h1, h2 \in Running :
          /\ h1.op = "add" /\ h1.result.tag = "Stored"
          /\ h2.op = "add" /\ h2.result.tag = "DuplicateCommand"
    /\ Cardinality(added) = 1
    /\ \A r \in added : StoredIn(files, r.scope) = [k \in {r.command} |-> r.answer]

\* C4: no update of a scope is lost: the persisted command set of every
\* scope holds exactly the entries of the Adds answered Stored and not
\* deleted since, that is the result of applying the mutating operations one
\* after the other.
C4_NoLostUpdate ==
    \A scope \in Scopes :
        /\ DOMAIN StoredIn(files, scope) = {r.command : r \in {x \in added : x.scope = scope}}
        /\ \A r \in added : r.scope = scope =>
              StoredIn(files, scope)[r.command] = r.answer

\* Two Adds of different triggers in one scope are awaiting their replies at
\* once, both Stored, and both entries are in the file.
C4_Witness ==
    LET stored == {h \in Running : h.op = "add" /\ h.result.tag = "Stored"}
    IN  /\ \/ Cardinality(stored) = 2
           \/ \E h \in stored : CopiesIn(h, handler) = 2
        /\ Cardinality(added) = 2
        /\ \E scope \in Scopes : Cardinality(DOMAIN StoredIn(files, scope)) = 2

\* C5: an Add, Delete or List whose role lookup reports a role that is not
\* elevated is answered Unauthorized and leaves every folder and file as it
\* was.
C5_UnauthorizedNoChange ==
    [][\A h \in BagToSet(handler), h2 \in BagToSet(handler') :
          (/\ Resumed(h, h2) /\ h.op \in {"add", "list", "delete"}
           /\ ~Elevated(h2.status))
          => (h2.result.tag = "Unauthorized" /\ files' = files /\ dirs' = dirs)]_vars

\* A Delete was answered Unauthorized while commands are stored.
C5_Witness ==
    /\ added # {}
    /\ \E h \in Running :
          h.op = "delete" /\ h.status = "member" /\ h.result.tag = "Unauthorized"

\* Every pair of a kind and a chat identifier.
AllScopes == {"user", "group"} \X ((0 - MaxChatId)..MaxChatId)

\* C6: scopes are isolated: different scopes have different folders, an Add
\* or Delete changes the command set of no scope but its own, and a message
\* in a scope that holds no Add of its text is answered NoMatch whatever the
\* other scopes hold.
C6_ScopeIsolation ==
    /\ [](\A s1, s2 \in AllScopes :
            s1 # s2 => FolderName(s1[1], s1[2]) # FolderName(s2[1], s2[2]))
    /\ [](\A scope \in Scopes, text \in MessageTexts :
            Live(scope, Lower(Strip(text))) = {}
            => Match(scope, text) = Result("NoMatch", <<>>))
    /\ [][\A h \in BagToSet(handler), h2 \in BagToSet(handler') :
            Resumed(h, h2)
            => \A scope \in Scopes \ {ScopeOf(h.chat)} :
                  StoredIn(files', scope) = StoredIn(files, scope)]_vars

\* A message in one scope was answered NoMatch while another scope holds
\* commands and this one holds none.
C6_Witness ==
    \E h \in Running, r \in added :
        /\ h.op = "message" /\ h.result.tag = "NoMatch"
        /\ ScopeOf(h.chat) # r.scope
        /\ \A x \in added : x.scope # ScopeOf(h.chat)

\* C7: a Delete by an authorized actor of a trigger T that an Add stored in
\* the scope, running with no other handler in flight, is answered Deleted,
\* removes the entry of T and no other, and leaves a message with the text T
\* answered NoMatch.
C7_DeleteAfterAdd ==
    [][\A h \in BagToSet(handler), h2 \in BagToSet(handler') :
          \A r \in added :
             (/\ Resumed(h, h2) /\ h.op = "delete" /\ Elevated(h2.status)
              /\ BagCardinality(handler) = 1
              /\ r.scope = ScopeOf(h.chat)
              /\ h.text = DelCmd \o <<" ">> \o r.raw)
             => /\ h2.result.tag = "Deleted"
                /\ StoredIn(files', r.scope) = DictDel(StoredIn(files, r.scope), r.command)
                /\ MatchOutcome(StoredIn(files', r.scope), r.raw).tag = "NoMatch"]_vars

C9_KeysNormalized ==
    \A folder \in DOMAIN files : \A k \in DOMAIN files[folder] :
        k # <<>> /\ k = Lower(Strip(k))

\* C10: a message with the text x is answered as a message with the text
\* trim(lower(x)) is, in every scope and for every text x.
C10_MatchNormalization ==
    \A scope \in Scopes, x \in Texts :
        Match(scope, x) = Match(scope, Strip(Lower(x)))

\* A message was answered with a stored response, as a text that is not in
\* normal form is in that scope.
C10_Witness ==
    \E h \in Running, x \in Texts :
        /\ h.op = "message" /\ h.result.tag = "Matched"
        /\ x # Strip(Lower(x)) /\ Strip(Lower(x)) # <<>>
        /\ Match(ScopeOf(h.chat), x) = h.result

\* C11: Delete normalizes its trigger as Add does: for every raw trigger an
\* Add stored, a /deletecommand with the same raw text addresses the key the
\* Add stored it under.
C11_DeleteNormalizesAsAdd ==
    \A r \in added :
        Lower(Strip(Join(Tail(Split(DelCmd \o <<" ">> \o r.raw))))) = Lower(Strip(r.raw))

\* The folder of a chat's scope.
FolderOf(chat) == FolderName(IdType(chat.type), chat.id)

\* In this step coroutine h2 came to its outcome.
Came(h2) == h2.pc # "auth" /\ CopiesIn(h2, handler') > CopiesIn(h2, handler)

\* In this step coroutine h left the role lookup and became h2.
Stepped(h, h2) ==
    /\ h.pc = "auth" /\ h2.pc # "auth" /\ h2.op = h.op /\ h2.chat = h.chat
    /\ handler' = Advance(h, h2)

\* C12: load never fails its caller: a Match, or a List, Add or Delete by an
\* authorized actor, on a scope whose commands.json is empty or cut short
\* does not end with the error of the load but with the result the empty
\* command set gives.
C12_LoadNeverFails ==
    [][\A h2 \in BagToSet(handler') :
          (/\ Came(h2) /\ FolderOf(h2.chat) \in torn
           /\ (h2.op = "message" \/ Elevated(h2.status)))
          => /\ h2.result.tag # "LoadError"
             /\ h2.op = "message" => h2.result.tag = "NoMatch"
             /\ h2.op = "list" => h2.result.tag = "Empty"
             /\ h2.op = "delete" => h2.result.tag = "NotFound"]_vars

\* C13: save is atomic: whether save_commands returns, raises or the process
\* stops in it, the commands.json of every scope holds a complete mapping,
\* the one before the save or the one saved, never an empty or cut one.
C13_SaveAtomic ==
    [][\A scope \in Scopes :
          LET folder == FolderName(scope[1], scope[2])
          IN  folder \notin torn
              => /\ folder \notin torn'
                 /\ \/ StoredIn(files', scope) = StoredIn(files, scope)
                    \/ \E h \in BagToSet(handler) :
                          /\ h.pc = "auth" /\ ScopeOf(h.chat) = scope
                          /\ \/ /\ h.op = "add" /\ AddParse(h.text) # <<>>
                                /\ StoredIn(files', scope) =
                                      DictSet(StoredIn(files, scope),
                                              Lower(Strip(AddParse(h.text)[1])),
                                              AddParse(h.text)[2])
                             \/ /\ h.op = "delete"
                                /\ StoredIn(files', scope) =
                                      DictDel(StoredIn(files, scope),
                                              Lower(Strip(Join(Tail(Split(h.text))))))]_vars

\* The reply tags of an Add, List or Delete that passed the role test.
AuthorizedTags ==
    {"Stored", "DuplicateCommand", "InvalidFormat", "Listed", "Empty",
     "Deleted", "NotFound"}

\* C14: an Add or Delete whose save failed is not reported as successful,
\* and later operations see what is on disk: when an authorized Add of a new
\* trigger, or Delete of a stored one, leaves the scope's file without the
\* complete new mapping, no reply is sent for it, and every reply to a
\* message is a response the file of its scope holds.
C14_FailedSaveNotReported ==
    /\ [][\A h \in BagToSet(handler), h2 \in BagToSet(handler') :
            (/\ Stepped(h, h2) /\ h.op \in {"add", "delete"} /\ Elevated(h2.status)
             /\ FolderOf(h.chat) \notin torn)
            => LET scope == ScopeOf(h.chat)
                   old   == StoredIn(files, scope)
                   key   == IF h.op = "add" THEN Lower(Strip(AddParse(h.text)[1]))
                            ELSE Lower(Strip(Join(Tail(Split(h.text)))))
                   new   == IF h.op = "add" THEN DictSet(old, key, AddParse(h.text)[2])
                            ELSE DictDel(old, key)
                   saves == IF h.op = "add"
                            THEN AddParse(h.text) # <<>> /\ key \notin DOMAIN old
                            ELSE key \in DOMAIN old
                   saved == FolderOf(h.chat) \notin torn' /\ StoredIn(files', scope) = new
               IN  (saves /\ ~saved)
                   => /\ h2.pc # "reply"
                      /\ h2.result.tag \notin AuthorizedTags]_vars
    /\ [][\A h2 \in BagToSet(handler') :
            (Came(h2) /\ h2.op = "message" /\ h2.pc = "reply")
            => /\ FolderOf(h2.chat) \notin torn
               /\ \E k \in DOMAIN StoredIn(files, ScopeOf(h2.chat)) :
                     StoredIn(files, ScopeOf(h2.chat))[k] = h2.result.answer]_vars

\* An Add ended with the error of its save, which left the file of its scope
\* as it was, with a command stored before; and a Delete did so too.
C14_Witness ==
    \E h \in Running :
        /\ h.op \in {"add", "delete"} /\ h.result.tag = "SaveError"
        /\ FolderOf(h.chat) \notin torn
        /\ StoredIn(files, ScopeOf(h.chat)) # EmptyDict

\* C15: an Add, Delete or List whose role lookup fails ends with neither the
\* Unauthorized reply nor a reply of the authorized path: nothing is sent, no
\* folder is created and no file is read or written.
C15_LookupFailureDistinct ==
    [][\A h \in BagToSet(handler), h2 \in BagToSet(handler') :
          (/\ Stepped(h, h2) /\ h.op \in {"add", "list", "delete"}
           /\ h2.status \notin Statuses)
          => /\ h2.pc = "done"
             /\ h2.result.tag \notin AuthorizedTags \cup {"Unauthorized"}
             /\ dirs' = dirs /\ files' = files /\ torn' = torn]_vars

\* The role lookup of a Delete failed while commands are stored, and its
\* coroutine ended with the error.
C15_Witness ==
    /\ added # {}
    /\ \E h \in Running :
          h.op = "delete" /\ h.pc = "done" /\ h.result.tag = "LookupError"

\* The operations behind the role lookup.
Gated == {"add", "list", "delete"}

\* C16: every Add, List and Delete performs the role lookup, and before any
\* load or save: its coroutine reaches the lookup with no folder and no file
\* touched, and has a reported role whenever it is past it; a step changes a
\* folder or a file only if it is a message's or that of a coroutine past
\* the lookup.  No Match performs the lookup: a message is answered Matched
\* or NoMatch with no role known.
C16_LookupBeforeStore ==
    /\ [](\A h \in Running :
            /\ (h.op \in Gated /\ h.pc # "auth") => h.status \in Statuses
            /\ h.op = "message" =>
                  /\ h.pc # "auth" /\ h.status \notin Statuses
                  /\ h.result.tag \in {"Matched", "NoMatch"})
    /\ [][\A h2 \in BagToSet(handler') :
            (CopiesIn(h2, handler') > CopiesIn(h2, handler) /\ h2.op \in Gated
             /\ h2.pc = "auth")
            => dirs' = dirs /\ files' = files]_vars
    /\ [][(dirs' # dirs \/ files' # files)
            => \E h2 \in BagToSet(handler') :
                  /\ Came(h2)
                  /\ h2.op = "message" \/ h2.status \in Statuses]_vars

\* A message was answered Matched with no role looked up, while an Add
\* awaits its lookup in a chat whose folder does not exist yet.
C16_Witness ==
    /\ \E h \in Running :
          h.op = "message" /\ h.result.tag = "Matched" /\ h.status = "none"
    /\ \E h \in Running :
          h.op = "add" /\ h.pc = "auth" /\ FolderOf(h.chat) \notin dirs

\* What follows the command has no quoted segment, or a quoted segment with
\* nothing after it.
Malformed(arg) ==
    LET quotes == {i \in 1..Len(arg) : arg[i] = Q}
    IN  \/ Cardinality(quotes) < 2
        \/ /\ Cardinality(quotes) = 2
           /\ arg[1] = Q /\ arg[Len(arg)] = Q

\* C17: an Add with malformed input by an authorized actor is answered
\* InvalidFormat and leaves every folder and file as it was.
C17_MalformedAdd ==
    [][\A h \in BagToSet(handler), h2 \in BagToSet(handler') :
          (/\ Resumed(h, h2) /\ h.op = "add" /\ Elevated(h2.status)
           /\ Malformed(Strip(Slice(h.text, 12))))
          => (h2.result.tag = "InvalidFormat" /\ files' = files /\ dirs' = dirs)]_vars

\* An Add by an authorized actor was answered InvalidFormat while commands
\* are stored.
C17_Witness ==
    /\ added # {}
    /\ \E h \in Running :
          h.op = "add" /\ Elevated(h.status) /\ h.result.tag = "InvalidFormat"

\* C18: the entries of a scope's command set change only in a step of an Add
\* or Delete in that scope that passed the role test and is answered Stored
\* or Deleted: a Match, a List and a rejected Add or Delete leave the mapping
\* of every scope as it was, though they may create its folder.
C18_OnlyAuthorizedMutate ==
    [][\A scope \in Scopes :
          StoredIn(files', scope) # StoredIn(files, scope)
          => \E h \in BagToSet(handler), h2 \in BagToSet(handler') :
                /\ Resumed(h, h2) /\ h.op \in {"add", "delete"}
                /\ ScopeOf(h.chat) = scope
                /\ Elevated(h2.status)
                /\ h2.result.tag \in {"Stored", "Deleted"}]_vars

\* A List was answered Empty and a message NoMatch: folders exist, created
\* by the loads, and no file does.
C18_Witness ==
    /\ dirs # {} /\ DOMAIN files = {}
    /\ \E h \in Running : h.op = "list" /\ h.result.tag = "Empty"
    /\ \E h \in Running : h.op = "message" /\ h.result.tag = "NoMatch"

\* C19: whatever the kind of the chat, an Add, List or Delete is answered
\* Unauthorized if and only if the reported role is neither administrator
\* nor creator; so it is for a plain member of a private chat.
C19_RoleOnly ==
    [][\A h \in BagToSet(handler), h2 \in BagToSet(handler') :
          (Resumed(h, h2) /\ h.op \in Gated)
          => /\ h2.result.tag = "Unauthorized" <=> ~Elevated(h2.status)
             /\ (h.chat.type = "private" /\ h2.status = "member")
                   => h2.result.tag = "Unauthorized"]_vars

\* In a private chat a member was answered Unauthorized, and in a group a
\* creator was not.
C19_Witness ==
    /\ \E h \in Running :
          /\ h.op \in Gated /\ h.chat.type = "private"
          /\ h.status = "member" /\ h.result.tag = "Unauthorized"
    /\ \E h \in Running :
          /\ h.op \in Gated /\ h.chat.type = "group"
          /\ h.status = "creator" /\ h.pc = "reply" /\ h.result.tag # "Unauthorized"

====
